---------------------------- MODULE Spec2Model ----------------------------
(***************************************************************************)
(* Rugby Snake (src/Main.py.py): the round simulation and the screen state *)
(* machine of main(), with Player, BackgroundPlayer and spawn_food.        *)
(*                                                                         *)
(* One frame of the main loop drains the event queue (one event action per *)
(* event, any number of them) and then runs the rest of the loop body as   *)
(* one action: the update of lines 897-943 in its source order (countdown, *)
(* or pursuit, player move, collision loop, round timer) and the render.   *)
(*                                                                         *)
(* Lengths.  The field is modelled at a reduced scale (GridW, GridH,       *)
(* CellSize, Radius, SpawnMargin, MinDistance are smaller than in the      *)
(* code; the code's values are given next to each).  Pursuer coordinates   *)
(* are floats in the code; the model keeps them on the half-pixel lattice  *)
(* (a coordinate c stands for c/2 pixels), on which the three speeds 1.5,  *)
(* 2.0 and 2.5 are the integers 3, 4, 5; every pursuit step component is   *)
(* rounded to that lattice.  move_delay is a float that moves in steps of  *)
(* 0.5; the model stores twice its value.                                  *)
(***************************************************************************)
EXTENDS Integers, Sequences, FiniteSets, TLC

VARIABLES
    running,             \* FALSE once pygame.QUIT has ended the process
    state,               \* current screen
    selected_difficulty, selected_color, selected_time,
    num_defenders, initial_move_delay, move_delay, move_counter,
    player,              \* <<>> (None) or <<[x, y, direction, color]>>
    food_pos,            \* <<>> (None) or <<x, y>>
    bg_players,          \* sequence of [x, y, speed, color], half-pixels
    score, final_score, lives,
    time_left_frames, countdown_timer, paused,
    key_taken,           \* a key has passed the cooldown test in this drain of the queue
    last_step,           \* history: the player's last relocation in this life
    sound_on, dark_mode,
    volume_level         \* in tenths: 5 is 0.5

vars == <<running, state, selected_difficulty, selected_color, selected_time,
          num_defenders, initial_move_delay, move_delay, move_counter,
          player, food_pos, bg_players, score, final_score, lives,
          time_left_frames, countdown_timer, paused, key_taken, last_step,
          sound_on, dark_mode, volume_level>>

---------------------------------------------------------------------------
(* Screens (lines 31-37) *)
MENU == "menu"
WELCOME == "welcome"
SETTINGS == "settings"
PLAYING == "playing"
COLOR_SELECT == "color_select"
TIME_SELECT == "time_select"
GAME_OVER == "game_over"

None == "None"

(* Program constants *)
EasyDelay == 10
MediumDelay == 7
HardDelay == 5
EasyDefenders == 2
MediumDefenders == 4
HardDefenders == 6
MinMoveDelay == 2
SecondsPerMinute == 60
CountdownSeconds == 3
StartLives == 3
PickupPoints == 10
WallPenalty == 5
PitchLeft == 100
PitchTop == 100
VolumeStart == 5
VolumeMax == 10

(* Reduced scale: the code has grid 30 x 20, cell_size 20, radius 15,      *)
(* spawn margin 20, min_distance 100 and FPS 60 (frames in a second of the *)
(* countdown and of the round timer).                                      *)
GridW == 10
GridH == 3
CellSize == 4
Radius == 2
SpawnMargin == 2
MinDistance == 20
FPS == 1

(* max_attempts of the two sampling loops (lines 211 and 571): the code    *)
(* has 100 in both.                                                        *)
MaxAttempts == 4
FoodMaxAttempts == 4

(* Model bounds on the inputs: the score beyond which the model does not   *)
(* follow a round, and by how many frames a stalled frame overruns the     *)
(* round timer.                                                            *)
MaxScore == 10
ElapsedStep == 10

PitchRight == PitchLeft + GridW * CellSize
PitchBottom == PitchTop + GridH * CellSize

Difficulties == {"Easy", "Medium", "Hard"}
(* The colour buttons are Red, Blue, Green, Black (lines 652-653) and the  *)
(* duration buttons 1..5 (lines 660-664); the model presses these.         *)
Colors == {"Red"}
Minutes == {1}

(* int(dt * FPS) of a frame: 0 for a frame on time; a stalled frame uses   *)
(* up what is left of the round, exactly or with ElapsedStep to spare.     *)
ElapsedChoices(left) == {0, left, left + ElapsedStep}

Max(a, b) == IF a >= b THEN a ELSE b
Min(a, b) == IF a <= b THEN a ELSE b


---------------------------------------------------------------------------
(* Geometry: centre of a grid cell in half-pixels (lines 206-209, 233-236) *)
CentreX(cx) == 2 * (PitchLeft + cx * CellSize + CellSize \div 2)
CentreY(cy) == 2 * (PitchTop + cy * CellSize + CellSize \div 2)

Sq(a) == a * a
Sgn(a) == IF a < 0 THEN -1 ELSE IF a > 0 THEN 1 ELSE 0

(* Squared distance, in half-pixels, of pursuer b from the point (px, py) *)
Dist2(b, px, py) == Sq(b.x - px) + Sq(b.y - py)

(* dist < radius + cell_size // 2, on squares (both sides are >= 0) *)
CollisionReach == 2 * (Radius + CellSize \div 2)

---------------------------------------------------------------------------
(* Player (lines 262-287) *)
NewPlayer(color) ==
    [x |-> GridW \div 2, y |-> GridH \div 2, direction |-> <<1, 0>>,
     color |-> color]

Directions == {<<0, -1>>, <<0, 1>>, <<-1, 0>>, <<1, 0>>}

(* a change of direction that accepts every command *)
change_directionAny(p, new_dir) == [p EXCEPT !.direction = new_dir]

change_direction(p, new_dir) ==
    IF (new_dir[1] # -p.direction[1] \/ new_dir[2] # -p.direction[2])
          \/ (new_dir[1] = 0 /\ new_dir[2] = 0)
    THEN [p EXCEPT !.direction = new_dir]
    ELSE p

(* Player.move without the bounds test of lines 280-283 *)
PlayerMoveUnchecked(p, food, grid_w, grid_h) ==
    [player |-> [p EXCEPT !.x = p.x + p.direction[1], !.y = p.y + p.direction[2]],
     success |-> TRUE,
     ate |-> (<<p.x + p.direction[1], p.y + p.direction[2]>> = food),
     hit_wall |-> FALSE]

(* Player.move with ate computed on the cell the player leaves *)
PlayerMoveAteBehind(p, food, grid_w, grid_h) ==
    LET new_x == p.x + p.direction[1]
        new_y == p.y + p.direction[2]
        hit_wall == ~(0 <= new_x /\ new_x < grid_w /\ 0 <= new_y /\ new_y < grid_h)
    IN  IF hit_wall
        THEN [player |-> p, success |-> TRUE, ate |-> FALSE, hit_wall |-> TRUE]
        ELSE [player |-> [p EXCEPT !.x = new_x, !.y = new_y],
              success |-> TRUE,
              ate |-> (<<p.x, p.y>> = food),
              hit_wall |-> FALSE]

(* Player.move along the previous relocation: the heading as it was       *)
(* before the commands of this frame                                       *)
PlayerMoveStaleHeading(p, food, grid_w, grid_h) ==
    LET d == IF last_step # <<0, 0>> THEN last_step ELSE p.direction
        new_x == p.x + d[1]
        new_y == p.y + d[2]
        hit_wall == ~(0 <= new_x /\ new_x < grid_w /\ 0 <= new_y /\ new_y < grid_h)
    IN  IF hit_wall
        THEN [player |-> p, success |-> TRUE, ate |-> FALSE, hit_wall |-> TRUE]
        ELSE [player |-> [p EXCEPT !.x = new_x, !.y = new_y],
              success |-> TRUE,
              ate |-> (<<new_x, new_y>> = food),
              hit_wall |-> FALSE]

(* Player.move: the moved player and the triple it returns *)
PlayerMove(p, food, grid_w, grid_h) ==
    LET new_x == p.x + p.direction[1]
        new_y == p.y + p.direction[2]
        hit_wall == ~(0 <= new_x /\ new_x < grid_w /\ 0 <= new_y /\ new_y < grid_h)
    IN  IF hit_wall
        THEN [player |-> p, success |-> TRUE, ate |-> FALSE, hit_wall |-> TRUE]
        ELSE [player |-> [p EXCEPT !.x = new_x, !.y = new_y],
              success |-> TRUE,
              ate |-> (<<new_x, new_y>> = food),
              hit_wall |-> FALSE]

---------------------------------------------------------------------------
(* Defenders (lines 190-257) *)
ColorOptions == <<"Yellow", "Magenta", "Cyan">>

DefenderColor(player_color) ==
    IF \E i \in 1..Len(ColorOptions) : ColorOptions[i] # player_color
    THEN ColorOptions[CHOOSE i \in 1..Len(ColorOptions) :
                         /\ ColorOptions[i] # player_color
                         /\ \A j \in 1..(i - 1) : ColorOptions[j] = player_color]
    ELSE ColorOptions[1]

(* one speed for every difficulty *)
DefenderSpeedFlat(difficulty) == 4

(* speed in half-pixels per frame: 1.5, 2.0, 2.5 *)
DefenderSpeed(difficulty) ==
    IF difficulty = "Easy" THEN 3
    ELSE IF difficulty = "Medium" THEN 4
    ELSE 5

(* The points random.randint can return are all of                         *)
(* [left+20, right-20] x [top+20, bottom-20]; the model draws from the     *)
(* corner nearest the origin and the middle of that range (pixels).        *)
DefenderSamples ==
    {<<PitchLeft + SpawnMargin, PitchTop + SpawnMargin>>,
     <<PitchLeft + (GridW * CellSize) \div 2, PitchTop + (GridH * CellSize) \div 2>>}

(* the default position on the corner of the pitch itself *)
DefenderFallbackCorner == <<PitchLeft, PitchTop>>

(* lines 226-227: the default position *)
DefenderFallback == <<PitchLeft + SpawnMargin, PitchTop + SpawnMargin>>

(* a distance test that accepts every sample *)
FarEnoughAny(pt, p) == TRUE

(* line 217-219: dist >= min_distance *)
FarEnough(pt, p) ==
    Sq(2 * pt[1] - CentreX(p.x)) + Sq(2 * pt[2] - CentreY(p.y))
        >= Sq(2 * MinDistance)

(* BackgroundPlayer.__init__: the positions the sampling loop can end with: *)
(* an accepted sample, or the default once 101 samples were rejected.      *)
SpawnPoints(p) ==
    {pt \in DefenderSamples : FarEnough(pt, p)}
        \cup (IF \E pt \in DefenderSamples : ~FarEnough(pt, p)
              THEN {DefenderFallback} ELSE {})

(* One pass of a sampling loop (lines 212-228, 572-590) on its counters:   *)
(* a draw, then break or return if it is accepted, else the attempt is     *)
(* counted and the default taken once the count exceeds max_attempts.      *)
SampleStep(l, rejected, max_attempts) ==
    IF l.done THEN l
    ELSE IF ~rejected
         THEN [l EXCEPT !.drawn = l.drawn + 1, !.done = TRUE]
         ELSE IF l.spawn_attempts + 1 > max_attempts
              THEN [l EXCEPT !.drawn = l.drawn + 1,
                             !.spawn_attempts = l.spawn_attempts + 1,
                             !.done = TRUE, !.default = TRUE]
              ELSE [l EXCEPT !.drawn = l.drawn + 1,
                             !.spawn_attempts = l.spawn_attempts + 1]

(* The loop of BackgroundPlayer.__init__ when the first `rejects` draws    *)
(* are nearer than min_distance and the following ones are not: its        *)
(* counters after MaxAttempts + 2 passes.                                  *)
SpawnLoop(rejects) ==
    LET after[k \in 0..(MaxAttempts + 2)] ==
            IF k = 0
            THEN [spawn_attempts |-> 0, drawn |-> 0, done |-> FALSE,
                  default |-> FALSE]
            ELSE SampleStep(after[k - 1], k <= rejects, MaxAttempts)
    IN  after[MaxAttempts + 2]

(* The numbers of rejected draws the loop can begin with for player p: any *)
(* number while both kinds of sample exist.                                *)
SpawnRejects(p) ==
    {r \in 0..(MaxAttempts + 2) :
        /\ r > 0 => \E pt \in DefenderSamples : ~FarEnough(pt, p)
        /\ r <= MaxAttempts => \E pt \in DefenderSamples : FarEnough(pt, p)}

NewDefenders(player_color, p, difficulty) ==
    {[x |-> 2 * pt[1], y |-> 2 * pt[2], speed |-> DefenderSpeed(difficulty),
      color |-> DefenderColor(player_color)] : pt \in SpawnPoints(p)}

(* The integer k nearest to |d| * speed / dist, dist = sqrt(dd): the step  *)
(* component (d / dist) * speed rounded to the half-pixel lattice.         *)
StepLen(d, dd, speed) ==
    CHOOSE k \in 0..speed :
        /\ (k = 0 \/ Sq(2 * k - 1) * dd <= Sq(2 * d * speed))
        /\ (k = speed \/ Sq(2 * k + 1) * dd > Sq(2 * d * speed))

Clamp(lo, v, hi) == Max(lo, Min(v, hi))

(* BackgroundPlayer.move *)
DefenderMove(b, p, countdown) ==
    IF countdown > 0 THEN b
    ELSE
    LET dx == CentreX(p.x) - b.x
        dy == CentreY(p.y) - b.y
        dd == Sq(dx) + Sq(dy)
        nx == IF dd > 0 THEN b.x + Sgn(dx) * StepLen(dx, dd, b.speed) ELSE b.x
        ny == IF dd > 0 THEN b.y + Sgn(dy) * StepLen(dy, dd, b.speed) ELSE b.y
    IN  [b EXCEPT !.x = Clamp(2 * (PitchLeft + Radius), nx, 2 * (PitchRight - Radius)),
                  !.y = Clamp(2 * (PitchTop + Radius), ny, 2 * (PitchBottom - Radius))]

(* the collision test with <= in place of < *)
collides_with_playerInclusive(b, p) ==
    Dist2(b, CentreX(p.x), CentreY(p.y)) <= Sq(CollisionReach)

collides_with_player(b, p) ==
    Dist2(b, CentreX(p.x), CentreY(p.y)) < Sq(CollisionReach)

---------------------------------------------------------------------------
(* spawn_food (lines 569-590) *)
(* random.randint can return every cell of the grid; the model draws from  *)
(* the right neighbour of the start cell and the corner cell (0, 0).       *)
FoodSamples ==
    {<<GridW \div 2 + 1, GridH \div 2>>, <<0, 0>>}

FoodFallback == <<GridW \div 2 + 1, GridH \div 2 + 1>>

FoodSafe(c, p, bgs) ==
    /\ c # <<p.x, p.y>>
    /\ \A i \in 1..Len(bgs) :
          ~(Dist2(bgs[i], CentreX(c[1]), CentreY(c[2])) < Sq(CollisionReach))

(* The loop of spawn_food when the first `rejects` draws are on the player *)
(* or under a defender and the following ones are not.                     *)
FoodLoop(rejects) ==
    LET after[k \in 0..(FoodMaxAttempts + 2)] ==
            IF k = 0
            THEN [spawn_attempts |-> 0, drawn |-> 0, done |-> FALSE,
                  default |-> FALSE]
            ELSE SampleStep(after[k - 1], k <= rejects, FoodMaxAttempts)
    IN  after[FoodMaxAttempts + 2]

FoodRejects(p, bgs) ==
    {r \in 0..(FoodMaxAttempts + 2) :
        /\ r > 0 => \E c \in FoodSamples : ~FoodSafe(c, p, bgs)
        /\ r <= FoodMaxAttempts => \E c \in FoodSamples : FoodSafe(c, p, bgs)}

spawn_food(p, bgs) ==
    {c \in FoodSamples : FoodSafe(c, p, bgs)}
        \cup (IF \E c \in FoodSamples : ~FoodSafe(c, p, bgs)
              THEN {FoodFallback} ELSE {})


---------------------------------------------------------------------------
(* The difficulty table of lines 751-762 *)
DelayOf(difficulty) ==
    IF difficulty = "Easy" THEN EasyDelay
    ELSE IF difficulty = "Medium" THEN MediumDelay
    ELSE HardDelay

DefendersOf(difficulty) ==
    IF difficulty = "Easy" THEN EasyDefenders
    ELSE IF difficulty = "Medium" THEN MediumDefenders
    ELSE HardDefenders

(* All lists of n freshly placed defenders (lines 771-772, 845-846, 935-936) *)
DefenderBatches(player_color, p, difficulty, n) ==
    [1..n -> NewDefenders(player_color, p, difficulty)]

(* last_step when the player has not moved in this life *)
NoStep == <<0, 0>>

Init ==
    /\ running = TRUE
    /\ state = MENU
    /\ selected_difficulty = None
    /\ selected_color = None
    /\ selected_time = 0            \* None
    /\ num_defenders = 0
    /\ initial_move_delay = 0
    /\ move_delay = 0
    /\ move_counter = 0
    /\ player = <<>>
    /\ food_pos = <<>>
    /\ bg_players = <<>>
    /\ score = 0
    /\ final_score = 0
    /\ lives = StartLives
    /\ time_left_frames = 0
    /\ countdown_timer = 0
    /\ paused = FALSE
    /\ key_taken = FALSE
    /\ last_step = NoStep
    /\ sound_on = TRUE
    /\ dark_mode = TRUE
    /\ volume_level = VolumeStart

settings_vars == <<sound_on, dark_mode, volume_level>>
config_vars == <<selected_difficulty, selected_color, selected_time,
                 num_defenders, initial_move_delay>>
round_vars == <<move_delay, move_counter, player, food_pos, bg_players,
                score, lives, time_left_frames, countdown_timer, paused>>

---------------------------------------------------------------------------
(* Event handlers (lines 704-859), one event of the queue at a time *)

(* pygame.QUIT: the process exits, nothing of it is left *)
QuitEvent ==
    /\ running
    /\ running' = FALSE
    /\ state' = MENU
    /\ selected_difficulty' = None /\ selected_color' = None /\ selected_time' = 0
    /\ num_defenders' = 0 /\ initial_move_delay' = 0 /\ move_delay' = 0
    /\ move_counter' = 0
    /\ player' = <<>> /\ food_pos' = <<>> /\ bg_players' = <<>>
    /\ score' = 0 /\ final_score' = 0 /\ lives' = StartLives
    /\ time_left_frames' = 0 /\ countdown_timer' = 0 /\ paused' = FALSE
    /\ key_taken' = FALSE /\ last_step' = NoStep
    /\ sound_on' = TRUE /\ dark_mode' = TRUE /\ volume_level' = VolumeStart

(* pygame.ACTIVEEVENT with gain == 0 *)
(* a focus loss that toggles *)
FocusLostToggles ==
    /\ running
    /\ paused' = IF state = PLAYING THEN ~paused ELSE paused
    /\ UNCHANGED <<running, settings_vars, state, config_vars, move_delay,
                   move_counter, player, food_pos, bg_players, score, final_score, lives,
                   time_left_frames, countdown_timer, key_taken, last_step>>

FocusLost ==
    /\ running
    /\ paused' = IF state = PLAYING THEN TRUE ELSE paused
    /\ UNCHANGED <<running, settings_vars, state, config_vars, move_delay,
                   move_counter, player, food_pos, bg_players, score, final_score, lives,
                   time_left_frames, countdown_timer, key_taken, last_step>>

(* MENU: SPACE or the Play button *)
MenuStart ==
    /\ running /\ state = MENU
    /\ state' = WELCOME
    /\ UNCHANGED <<running, settings_vars, config_vars, round_vars, final_score,
                   key_taken, last_step>>

(* WELCOME: Easy / Medium / For the Brave! *)
(* a difficulty button that does not record the difficulty *)
PickDifficultyForgets(d) ==
    /\ running /\ state = WELCOME
    /\ state' = COLOR_SELECT
    /\ UNCHANGED <<running, settings_vars, config_vars, round_vars,
                   final_score, key_taken, last_step>>

PickDifficulty(d) ==
    /\ running /\ state = WELCOME
    /\ selected_difficulty' = d
    /\ state' = COLOR_SELECT
    /\ UNCHANGED <<running, settings_vars, selected_color, selected_time,
                   num_defenders, initial_move_delay, round_vars, final_score, key_taken,
                   last_step>>

(* WELCOME: a click on the ball icon (lines 734-736) *)
OpenSettings ==
    /\ running /\ state = WELCOME
    /\ state' = SETTINGS
    /\ UNCHANGED <<running, settings_vars, config_vars, round_vars, final_score,
                   key_taken, last_step>>

(* SETTINGS: ESC *)
(* leaving SETTINGS for the menu *)
CloseSettingsToMenu ==
    /\ running /\ state = SETTINGS
    /\ state' = MENU
    /\ UNCHANGED <<running, settings_vars, config_vars, round_vars, final_score,
                   key_taken, last_step>>

CloseSettings ==
    /\ running /\ state = SETTINGS
    /\ state' = WELCOME
    /\ UNCHANGED <<running, settings_vars, config_vars, round_vars, final_score,
                   key_taken, last_step>>

(* SETTINGS: KEYDOWN of s, t, up or down (lines 784-801); volume_level is  *)
(* counted in tenths, the rounding error of the float sums left out.      *)
SettingsKeys == {"s", "t", "up", "down"}

(* the same keys taken on every screen *)
SettingsKeyAnywhere(key) ==
    /\ running
    /\ sound_on' = IF key = "s" THEN ~sound_on ELSE sound_on
    /\ dark_mode' = IF key = "t" THEN ~dark_mode ELSE dark_mode
    /\ volume_level' = IF key = "up" THEN Min(volume_level + 1, VolumeMax)
                       ELSE IF key = "down" THEN Max(volume_level - 1, 0)
                       ELSE volume_level
    /\ UNCHANGED <<running, state, config_vars, round_vars, final_score,
                   key_taken, last_step>>

SettingsKey(key) ==
    /\ running /\ state = SETTINGS
    /\ sound_on' = IF key = "s" THEN ~sound_on ELSE sound_on
    /\ dark_mode' = IF key = "t" THEN ~dark_mode ELSE dark_mode
    /\ volume_level' = IF key = "up" THEN Min(volume_level + 1, VolumeMax)
                       ELSE IF key = "down" THEN Max(volume_level - 1, 0)
                       ELSE volume_level
    /\ UNCHANGED <<running, state, config_vars, round_vars, final_score,
                   key_taken, last_step>>

(* pygame.mixer.music.set_volume(volume_level if sound_on else 0) *)
MixerVolume == IF sound_on THEN volume_level ELSE 0

(* a colour button that does not record the colour *)
PickColorForgets(c) ==
    /\ running /\ state = COLOR_SELECT
    /\ state' = TIME_SELECT
    /\ UNCHANGED <<running, settings_vars, config_vars, round_vars, final_score,
                   key_taken, last_step>>

(* COLOR_SELECT: a colour button *)
PickColor(c) ==
    /\ running /\ state = COLOR_SELECT
    /\ selected_color' = c
    /\ state' = TIME_SELECT
    /\ UNCHANGED <<running, settings_vars, selected_difficulty, selected_time,
                   num_defenders, initial_move_delay, round_vars, final_score, key_taken,
                   last_step>>

(* TIME_SELECT: a duration button (lines 743-782) *)
PickTime(t) ==
    /\ running /\ state = TIME_SELECT
    /\ selected_time' = t
    /\ IF selected_color = None \/ selected_difficulty = None
       THEN /\ state' = WELCOME
            /\ UNCHANGED <<num_defenders, initial_move_delay, round_vars>>
       ELSE LET p == NewPlayer(selected_color) IN
            /\ move_delay' = 2 * DelayOf(selected_difficulty)
            /\ initial_move_delay' = 2 * DelayOf(selected_difficulty)
            /\ num_defenders' = DefendersOf(selected_difficulty)
            /\ player' = <<p>>
            /\ food_pos' \in spawn_food(p, bg_players)
            /\ score' = 0
            /\ lives' = StartLives
            /\ time_left_frames' = t * SecondsPerMinute * FPS
            /\ countdown_timer' = CountdownSeconds * FPS
            /\ move_counter' = 0
            /\ bg_players' \in DefenderBatches(selected_color, p, selected_difficulty,
                                               DefendersOf(selected_difficulty))
            /\ paused' = FALSE
            /\ state' = PLAYING
    /\ last_step' = NoStep
    /\ UNCHANGED <<running, settings_vars, selected_difficulty, selected_color,
                   final_score, key_taken>>

(* paused = not paused (lines 807, 823) *)
TogglePause(b) == ~b

(* PLAYING: KEYDOWN (lines 805-821).  key is "p" or a direction; cool says *)
(* that current_time - last_key_time > key_cooldown, which the wall clock  *)
(* decides, except that it cannot hold twice in one drain of the queue:    *)
(* the drain takes less than the 100 ms of key_cooldown.                   *)
KeyDirection(key) ==
    IF key = "up" THEN <<0, -1>>
    ELSE IF key = "down" THEN <<0, 1>>
    ELSE IF key = "left" THEN <<-1, 0>>
    ELSE <<1, 0>>

Keys == {"p", "up", "down", "left", "right"}

(* the key handler without "not paused" in the test of line 810 *)
KeyDownIgnoresPause(key, cool) ==
    /\ running /\ state = PLAYING
    /\ cool => ~key_taken
    /\ paused' = (IF key = "p" THEN ~paused ELSE paused)
    /\ key_taken' = (key_taken \/ (countdown_timer = 0 /\ cool))
    /\ player' = IF countdown_timer = 0 /\ cool
                       /\ key \in {"up", "down", "left", "right"}
                  THEN <<change_direction(player[1], KeyDirection(key))>>
                  ELSE player
    /\ UNCHANGED <<running, settings_vars, state, config_vars, move_delay,
                   move_counter, food_pos,
                   bg_players, score, final_score, lives, time_left_frames,
                   countdown_timer, last_step>>

(* the key handler without "countdown_timer == 0" in the test of line 810 *)
KeyDownDuringCountdown(key, cool) ==
    /\ running /\ state = PLAYING
    /\ cool => ~key_taken
    /\ LET now_paused == IF key = "p" THEN TogglePause(paused) ELSE paused
           accepted == ~now_paused /\ cool
       IN  /\ paused' = now_paused
           /\ key_taken' = (key_taken \/ accepted)
           /\ player' = IF accepted /\ key \in {"up", "down", "left", "right"}
                        THEN <<change_direction(player[1], KeyDirection(key))>>
                        ELSE player
    /\ UNCHANGED <<running, settings_vars, state, config_vars, move_delay,
                   move_counter, food_pos, bg_players, score, final_score,
                   lives, time_left_frames, countdown_timer, last_step>>

KeyDown(key, cool) ==
    /\ running /\ state = PLAYING
    /\ cool => ~key_taken
    /\ LET now_paused == IF key = "p" THEN TogglePause(paused) ELSE paused
           accepted == ~now_paused /\ countdown_timer = 0 /\ cool
       IN  /\ paused' = now_paused
           /\ key_taken' = (key_taken \/ accepted)
           /\ player' = IF accepted /\ key \in {"up", "down", "left", "right"}
                        THEN <<change_direction(player[1], KeyDirection(key))>>
                        ELSE player
    /\ UNCHANGED <<running, settings_vars, state, config_vars, move_delay,
                   move_counter, food_pos,
                   bg_players, score, final_score, lives, time_left_frames,
                   countdown_timer, last_step>>

(* PLAYING: the Pause button (lines 822-824) *)
PauseClick ==
    /\ running /\ state = PLAYING
    /\ paused' = TogglePause(paused)
    /\ UNCHANGED <<running, settings_vars, state, config_vars, move_delay,
                   move_counter, player, food_pos, bg_players, score, final_score, lives,
                   time_left_frames, countdown_timer, key_taken, last_step>>

(* PLAYING: the Quit button (lines 825-829).  last_key_time is read only   *)
(* in PLAYING with countdown_timer = 0 (line 812), and a round begins with *)
(* the frames of its countdown: what the cooldown was when a round ended   *)
(* is never read, and key_taken is left FALSE.                             *)
QuitRound ==
    /\ running /\ state = PLAYING
    /\ final_score' = score
    /\ state' = GAME_OVER
    /\ key_taken' = FALSE
    /\ last_step' = NoStep
    /\ UNCHANGED <<running, settings_vars, config_vars, round_vars>>

(* GAME_OVER: Restart (lines 831-852) *)
(* a restart that carries the score over *)
RestartSameKeepsScore ==
    /\ running /\ state = GAME_OVER
    /\ IF selected_color = None \/ selected_time = 0 \/ selected_difficulty = None
       THEN /\ state' = MENU
            /\ UNCHANGED round_vars
       ELSE LET p == NewPlayer(selected_color) IN
            /\ player' = <<p>>
            /\ food_pos' \in spawn_food(p, bg_players)
            /\ score' = score
            /\ lives' = StartLives
            /\ time_left_frames' = selected_time * SecondsPerMinute * FPS
            /\ countdown_timer' = CountdownSeconds * FPS
            /\ move_counter' = 0
            /\ move_delay' = initial_move_delay
            /\ bg_players' \in DefenderBatches(selected_color, p, selected_difficulty,
                                               num_defenders)
            /\ paused' = FALSE
            /\ state' = PLAYING
    /\ last_step' = NoStep
    /\ UNCHANGED <<running, settings_vars, config_vars, final_score, key_taken>>

RestartSame ==
    /\ running /\ state = GAME_OVER
    /\ IF selected_color = None \/ selected_time = 0 \/ selected_difficulty = None
       THEN /\ state' = MENU
            /\ UNCHANGED round_vars
       ELSE LET p == NewPlayer(selected_color) IN
            /\ player' = <<p>>
            /\ food_pos' \in spawn_food(p, bg_players)
            /\ score' = 0
            /\ lives' = StartLives
            /\ time_left_frames' = selected_time * SecondsPerMinute * FPS
            /\ countdown_timer' = CountdownSeconds * FPS
            /\ move_counter' = 0
            /\ move_delay' = initial_move_delay
            /\ bg_players' \in DefenderBatches(selected_color, p, selected_difficulty,
                                               num_defenders)
            /\ paused' = FALSE
            /\ state' = PLAYING
    /\ last_step' = NoStep
    /\ UNCHANGED <<running, settings_vars, config_vars, final_score, key_taken>>

(* GAME_OVER: Restart with Different Color/Time (lines 853-855) *)
RestartDifferent ==
    /\ running /\ state = GAME_OVER
    /\ state' = COLOR_SELECT
    /\ UNCHANGED <<running, settings_vars, config_vars, round_vars, final_score,
                   key_taken, last_step>>

(* GAME_OVER: Quit to Menu (lines 856-859) *)
QuitToMenu ==
    /\ running /\ state = GAME_OVER
    /\ state' = MENU
    /\ UNCHANGED <<running, settings_vars, config_vars, round_vars, final_score,
                   key_taken, last_step>>

---------------------------------------------------------------------------
(* The rest of the loop body (lines 860-981).                              *)
(* The update works on the variables of the round; the operators below     *)
(* take and return them as one record, with the locals ate, hit_wall,      *)
(* moved (the move fired) and collision_occurred.                          *)
Round ==
    [state |-> state, player |-> player, food_pos |-> food_pos,
     bg_players |-> bg_players, score |-> score, final_score |-> final_score,
     lives |-> lives, time_left_frames |-> time_left_frames,
     countdown_timer |-> countdown_timer, move_counter |-> move_counter,
     move_delay |-> move_delay, initial_move_delay |-> initial_move_delay,
     num_defenders |-> num_defenders, selected_difficulty |-> selected_difficulty,
     moved |-> FALSE, ate |-> FALSE, hit_wall |-> FALSE,
     collision_occurred |-> FALSE]

(* lines 902-904: every defender moves, then move_counter += 1 *)
PursuitStep(s) ==
    [s EXCEPT !.bg_players = [i \in 1..Len(s.bg_players) |->
                                 DefenderMove(s.bg_players[i], s.player[1],
                                              s.countdown_timer)],
              !.move_counter = s.move_counter + 1]

(* move_delay - 0.5 without the floor *)
FasterDelayUnfloored(d) == d - 1

(* move_delay = max(2, move_delay - 0.5), in halves *)
FasterDelay(d) == Max(2 * MinMoveDelay, d - 1)

(* score - 5 without the floor *)
WallScoreUnfloored(sc) == sc - WallPenalty

(* score = max(0, score - 5) *)
WallScore(sc) == Max(0, sc - WallPenalty)

(* a pickup that forgets score += 10 *)
PickupKeepsScore(s) ==
    [s EXCEPT !.move_delay = Max(2 * MinMoveDelay, s.move_delay - 1)]

(* lines 914-918, without the re-placement of the food *)
Pickup(s) ==
    [s EXCEPT !.score = s.score + PickupPoints,
              !.move_delay = FasterDelay(s.move_delay)]

(* the move taken one tick late: move_counter > move_delay *)
MoveOutcomesLate(s) ==
    IF 2 * s.move_counter > s.move_delay
    THEN LET r == PlayerMove(s.player[1], s.food_pos, GridW, GridH)
             s1 == [s EXCEPT !.move_counter = 0,
                             !.player = <<r.player>>,
                             !.final_score = IF ~r.success THEN s.score ELSE @,
                             !.state = IF ~r.success THEN GAME_OVER ELSE @,
                             !.moved = TRUE, !.ate = r.ate,
                             !.hit_wall = r.hit_wall]
             s2 == IF r.ate THEN Pickup(s1) ELSE s1
             s3 == IF r.hit_wall THEN [s2 EXCEPT !.score = WallScore(s2.score)]
                   ELSE s2
             foods == IF ~r.ate THEN {s.food_pos}
                      ELSE IF s.score + PickupPoints <= MaxScore
                           THEN spawn_food(r.player, s.bg_players)
                           ELSE {}
         IN  {[s3 EXCEPT !.food_pos = f] : f \in foods}
    ELSE {s}

(* lines 905-920: the player's move once the counter has reached the delay; *)
(* one outcome per cell spawn_food can return.  The model stops at         *)
(* MaxScore.                                                               *)
MoveOutcomes(s) ==
    IF 2 * s.move_counter >= s.move_delay
    THEN LET r == PlayerMove(s.player[1], s.food_pos, GridW, GridH)
             s1 == [s EXCEPT !.move_counter = 0,
                             !.player = <<r.player>>,
                             !.final_score = IF ~r.success THEN s.score ELSE @,
                             !.state = IF ~r.success THEN GAME_OVER ELSE @,
                             !.moved = TRUE, !.ate = r.ate,
                             !.hit_wall = r.hit_wall]
             s2 == IF r.ate THEN Pickup(s1) ELSE s1
             s3 == IF r.hit_wall THEN [s2 EXCEPT !.score = WallScore(s2.score)]
                   ELSE s2
             foods == IF ~r.ate THEN {s.food_pos}
                      ELSE IF s.score + PickupPoints <= MaxScore
                           THEN spawn_food(r.player, s.bg_players)
                           ELSE {}
         IN  {[s3 EXCEPT !.food_pos = f] : f \in foods}
    ELSE {s}

(* a collision that ends the round whatever the lives left *)
LoseLifeAll(s, food, batch) ==
    [s EXCEPT !.collision_occurred = TRUE,
              !.lives = 0,
              !.final_score = s.score,
              !.state = GAME_OVER]

(* a collision that always regenerates, also at the last life *)
LoseLifeNoGameOver(s, food, batch) ==
    [s EXCEPT !.collision_occurred = TRUE,
              !.lives = s.lives - 1,
              !.player = <<[x |-> GridW \div 2, y |-> GridH \div 2,
                            direction |-> <<1, 0>>, color |-> s.player[1].color]>>,
              !.food_pos = food,
              !.bg_players = batch,
              !.move_delay = s.initial_move_delay]

(* a life loss that restarts the countdown, as a round start does *)
LoseLifeRestartsCountdown(s, food, batch) ==
    IF s.lives - 1 <= 0
    THEN [s EXCEPT !.collision_occurred = TRUE,
                   !.lives = s.lives - 1,
                   !.final_score = s.score,
                   !.state = GAME_OVER]
    ELSE [s EXCEPT !.collision_occurred = TRUE,
                   !.lives = s.lives - 1,
                   !.player = <<[x |-> GridW \div 2, y |-> GridH \div 2,
                                 direction |-> <<1, 0>>,
                                 color |-> s.player[1].color]>>,
                   !.food_pos = food,
                   !.bg_players = batch,
                   !.move_delay = s.initial_move_delay,
                   !.countdown_timer = CountdownSeconds * FPS]

(* a life loss that places one defender fewer *)
LoseLifeShortBatch(s, food, batch) ==
    IF s.lives - 1 <= 0
    THEN [s EXCEPT !.collision_occurred = TRUE,
                   !.lives = s.lives - 1,
                   !.final_score = s.score,
                   !.state = GAME_OVER]
    ELSE [s EXCEPT !.collision_occurred = TRUE,
                   !.lives = s.lives - 1,
                   !.player = <<[x |-> GridW \div 2, y |-> GridH \div 2,
                                 direction |-> <<1, 0>>,
                                 color |-> s.player[1].color]>>,
                   !.food_pos = food,
                   !.bg_players = SubSeq(batch, 1, Len(batch) - 1),
                   !.move_delay = s.initial_move_delay]

(* One life lost (lines 925-937); food and batch are what the two spawn    *)
(* calls return if the round goes on.                                      *)
LoseLife(s, food, batch) ==
    IF s.lives - 1 <= 0
    THEN [s EXCEPT !.collision_occurred = TRUE,
                   !.lives = s.lives - 1,
                   !.final_score = s.score,
                   !.state = GAME_OVER]
    ELSE [s EXCEPT !.collision_occurred = TRUE,
                   !.lives = s.lives - 1,
                   !.player = <<NewPlayer(s.player[1].color)>>,
                   !.food_pos = food,
                   !.bg_players = batch,
                   !.move_delay = s.initial_move_delay]

(* the collision loop without the collision_occurred guard *)
RECURSIVE CollisionLoopEvery(_, _, _, _, _)
CollisionLoopEvery(i, defenders, s, food, batch) ==
    IF i > Len(defenders) THEN s
    ELSE CollisionLoopEvery(i + 1, defenders,
                            IF collides_with_player(defenders[i], s.player[1])
                            THEN LoseLife(s, food, batch)
                            ELSE s,
                            food, batch)

(* The loop of lines 922-937 from defender i on; it runs over the list     *)
(* that bg_players named when the loop began.                              *)
RECURSIVE CollisionLoop(_, _, _, _, _)
CollisionLoop(i, defenders, s, food, batch) ==
    IF i > Len(defenders) THEN s
    ELSE CollisionLoop(i + 1, defenders,
                       IF collides_with_player(defenders[i], s.player[1])
                             /\ ~s.collision_occurred
                       THEN LoseLife(s, food, batch)
                       ELSE s,
                       food, batch)

(* lines 921-937: one outcome per placement the spawn calls can return *)
CollideOutcomes(s) ==
    IF \E i \in 1..Len(s.bg_players) :
           collides_with_player(s.bg_players[i], s.player[1])
    THEN LET p == NewPlayer(s.player[1].color) IN
         {CollisionLoop(1, s.bg_players, s, food, batch) :
             food \in spawn_food(p, s.bg_players),
             batch \in DefenderBatches(p.color, p, s.selected_difficulty,
                                       s.num_defenders)}
    ELSE {s}

(* the timer test with < 0 in place of <= 0 *)
TimerStepStrict(s, elapsed) ==
    IF s.time_left_frames - elapsed < 0
    THEN [s EXCEPT !.time_left_frames = s.time_left_frames - elapsed,
                   !.final_score = s.score,
                   !.state = GAME_OVER]
    ELSE [s EXCEPT !.time_left_frames = s.time_left_frames - elapsed]

(* the timer expiry without final_score = score *)
TimerStepNoSnapshot(s, elapsed) ==
    IF s.time_left_frames - elapsed <= 0
    THEN [s EXCEPT !.time_left_frames = s.time_left_frames - elapsed,
                   !.state = GAME_OVER]
    ELSE [s EXCEPT !.time_left_frames = s.time_left_frames - elapsed]

(* lines 938-943; elapsed is int(dt * FPS) *)
TimerStep(s, elapsed) ==
    LET left == s.time_left_frames - elapsed IN
    IF left <= 0
    THEN [s EXCEPT !.time_left_frames = left,
                   !.final_score = s.score,
                   !.state = GAME_OVER]
    ELSE [s EXCEPT !.time_left_frames = left]

(* lines 902-943 *)
ActiveOutcomes(s, elapsed) ==
    {TimerStep(c, elapsed) :
        c \in UNION {CollideOutcomes(m) : m \in MoveOutcomes(PursuitStep(s))}}

(* last_step after an update that ends in s: none once the round or the    *)
(* life is over, the heading if the player entered a new cell.             *)
StepAfter(s) ==
    IF s.state # PLAYING \/ s.collision_occurred THEN NoStep
    ELSE IF s.moved /\ ~s.hit_wall THEN player[1].direction
    ELSE last_step

(* A frame without gameplay update: another screen, or paused *)
FrameIdle ==
    /\ running
    /\ ~(state = PLAYING /\ ~paused)
    /\ key_taken' = FALSE
    /\ UNCHANGED <<running, settings_vars, state, config_vars, round_vars,
                   final_score, last_step>>

(* the countdown frame without "not paused" (line 898) *)
FrameCountdownIgnoresPause ==
    /\ running
    /\ state = PLAYING
    /\ countdown_timer > 0
    /\ countdown_timer' = countdown_timer - 1
    /\ key_taken' = FALSE
    /\ UNCHANGED <<running, settings_vars, state, config_vars, move_delay,
                   move_counter, player, food_pos, bg_players, score, final_score, lives,
                   time_left_frames, paused, last_step>>

(* the countdown frame with the round timer running *)
FrameCountdownRunsTimer ==
    /\ running
    /\ state = PLAYING /\ ~paused
    /\ countdown_timer > 0
    /\ countdown_timer' = countdown_timer - 1
    /\ time_left_frames' = time_left_frames - 1
    /\ key_taken' = FALSE
    /\ UNCHANGED <<running, settings_vars, state, config_vars, move_delay,
                   move_counter, player, food_pos, bg_players, score, final_score, lives, paused,
                   last_step>>

(* A frame of the countdown (lines 899-900) *)
FrameCountdown ==
    /\ running
    /\ state = PLAYING /\ ~paused
    /\ countdown_timer > 0
    /\ countdown_timer' = countdown_timer - 1
    /\ key_taken' = FALSE
    /\ UNCHANGED <<running, settings_vars, state, config_vars, move_delay,
                   move_counter, player, food_pos, bg_players, score, final_score, lives,
                   time_left_frames, paused, last_step>>

(* A frame of play (lines 902-943) *)
FrameActive(elapsed) ==
    /\ running
    /\ state = PLAYING /\ ~paused
    /\ ~(countdown_timer > 0)
    /\ \E s \in ActiveOutcomes(Round, elapsed) :
          /\ state' = s.state
          /\ player' = s.player
          /\ food_pos' = s.food_pos
          /\ bg_players' = s.bg_players
          /\ score' = s.score
          /\ final_score' = s.final_score
          /\ lives' = s.lives
          /\ time_left_frames' = s.time_left_frames
          /\ move_counter' = s.move_counter
          /\ move_delay' = s.move_delay
          /\ last_step' = StepAfter(s)
    /\ key_taken' = FALSE
    /\ UNCHANGED <<running, settings_vars, config_vars, countdown_timer, paused>>

---------------------------------------------------------------------------
Next ==
    \/ QuitEvent
    \/ FocusLost
    \/ MenuStart
    \/ \E d \in Difficulties : PickDifficulty(d)
    \/ OpenSettings
    \/ CloseSettings
    \/ \E c \in Colors : PickColor(c)
    \/ \E t \in Minutes : PickTime(t)
    \/ \E key \in Keys, cool \in BOOLEAN : KeyDown(key, cool)
    \/ PauseClick
    \/ QuitRound
    \/ RestartSame
    \/ RestartDifferent
    \/ QuitToMenu
    \/ FrameIdle
    \/ FrameCountdown
    \/ \E elapsed \in ElapsedChoices(time_left_frames) : FrameActive(elapsed)

Spec == Init /\ [][Next]_vars

(* The same program with more of the colour buttons (lines 652-653) and    *)
(* of the time buttons (line 660), and no key presses: the player runs     *)
(* straight on.                                                            *)
ButtonColors == {"Red", "Blue"}
ButtonMinutes == {1, 2}

NextConfig ==
    \/ QuitEvent
    \/ FocusLost
    \/ MenuStart
    \/ \E d \in Difficulties : PickDifficulty(d)
    \/ OpenSettings
    \/ CloseSettings
    \/ \E c \in ButtonColors : PickColor(c)
    \/ \E t \in ButtonMinutes : PickTime(t)
    \/ PauseClick
    \/ QuitRound
    \/ RestartSame
    \/ RestartDifferent
    \/ QuitToMenu
    \/ FrameIdle
    \/ FrameCountdown
    \/ \E elapsed \in ElapsedChoices(time_left_frames) : FrameActive(elapsed)

SpecConfig == Init /\ [][NextConfig]_vars

(* The same program with the keys of the settings screen, and neither the  *)
(* keys nor the pause button of a round: the settings values are touched   *)
(* by nothing else, so Spec and SpecConfig leave them as Init set them.    *)
NextSettings ==
    \/ QuitEvent
    \/ FocusLost
    \/ MenuStart
    \/ \E d \in Difficulties : PickDifficulty(d)
    \/ OpenSettings
    \/ CloseSettings
    \/ \E key \in SettingsKeys : SettingsKey(key)
    \/ \E c \in Colors : PickColor(c)
    \/ \E t \in Minutes : PickTime(t)
    \/ QuitRound
    \/ RestartSame
    \/ RestartDifferent
    \/ QuitToMenu
    \/ FrameIdle
    \/ FrameCountdown
    \/ \E elapsed \in ElapsedChoices(time_left_frames) : FrameActive(elapsed)

SpecSettings == Init /\ [][NextSettings]_vars

---------------------------------------------------------------------------
(* Properties.                                                             *)
(* Active: the next frame runs the update of lines 902-943.  Moves: the    *)
(* round after the pursuit and the player's move of that frame, before its *)
(* collision loop.  Overlaps(s): the defenders that overlap the player.    *)
Active == running /\ state = PLAYING /\ ~paused /\ countdown_timer = 0

Moves == MoveOutcomes(PursuitStep(Round))

Overlaps(s) ==
    {i \in 1..Len(s.bg_players) :
        collides_with_player(s.bg_players[i], s.player[1])}

RoundStartStep == state # PLAYING /\ state' = PLAYING

(* C1: whenever there is a player, its cell (x, y) satisfies               *)
(* 0 <= x < grid_w and 0 <= y < grid_h.                                    *)
C1_PlayerInGrid ==
    player # <<>> =>
        /\ 0 <= player[1].x /\ player[1].x < GridW
        /\ 0 <= player[1].y /\ player[1].y < GridH

(* a round in which a life was lost and food was picked up, with the       *)
(* player on the top row heading into the wall                             *)
C1_Witness ==
    /\ state = PLAYING /\ lives < StartLives /\ score > 0
    /\ player[1].y = 0 /\ player[1].direction = <<0, -1>>

(* C2: a move blocked by the wall leaves the player's cell and heading and *)
(* the lives as they were and sets score to max(0, score - 5): 5 less      *)
(* when score >= 5, and 0 otherwise.                                       *)
C2_WallBlockedMove ==
    Active =>
        \A m \in Moves :
            m.hit_wall =>
                /\ m.player = player
                /\ m.lives = lives
                /\ m.score = (IF score >= 5 THEN score - 5 ELSE 0)
                /\ ~m.ate

(* the next frame's move is blocked and there are points to lose *)
C2_Witness ==
    /\ Active
    /\ score >= 5
    /\ \E m \in Moves : m.hit_wall

(* C3: a move that reports ate adds exactly 10 to score and puts the food  *)
(* on one cell that spawn_food returns for the moved player; and no step   *)
(* of the program raises score except such a move, by exactly 10.          *)
C3_PickupScores ==
    [][ /\ Active =>
            \A m \in Moves :
                m.ate =>
                    /\ m.score = score + 10
                    /\ m.food_pos \in spawn_food(m.player[1],
                                                 PursuitStep(Round).bg_players)
        /\ (running' /\ score' > score) =>
               /\ Active
               /\ score' = score + 10
               /\ \E m \in Moves : m.ate
      ]_vars

(* a round after its pickup, the food re-placed on the fallback cell *)
C3_Witness ==
    /\ state = PLAYING /\ score = 10
    /\ move_delay = initial_move_delay - 1
    /\ food_pos = FoodFallback

(* C4: in a round move_delay is at least 2.0; a step that is no reset      *)
(* (round start, restart, life loss) never raises it; a pickup sets it to  *)
(* max(2.0, move_delay - 0.5), for every value from 2.0 to the largest     *)
(* initial delay, and nothing but a pickup or a reset changes it.          *)
C4_DelayFloorAndMonotone ==
    [][ /\ state = PLAYING => move_delay >= 2 * 2
        /\ \A d \in (2 * 2)..(2 * EasyDelay) :
               FasterDelay(d) = (IF d - 1 >= 2 * 2 THEN d - 1 ELSE 2 * 2)
        /\ (running' /\ move_delay' # move_delay) =>
               \/ /\ RoundStartStep \/ lives' = lives - 1
                  /\ move_delay' = initial_move_delay'
               \/ /\ Active
                  /\ \E m \in Moves : m.ate
                  /\ move_delay' = FasterDelay(move_delay)
                  /\ move_delay' < move_delay
      ]_vars

(* a Hard round whose move_delay a pickup has lowered *)
C4_Witness ==
    /\ state = PLAYING /\ selected_difficulty = "Hard"
    /\ move_delay < initial_move_delay

(* C5: lives is in 0..3; it changes only when a round starts (to 3) or, in *)
(* an update of a round in which a defender overlaps the player, by a      *)
(* decrement of 1.                                                         *)
C5_LivesRange ==
    [][ /\ lives \in 0..3 /\ lives' \in 0..3
        /\ (running' /\ lives' # lives) =>
               \/ RoundStartStep /\ lives' = 3
               \/ /\ Active
                  /\ lives' = lives - 1
                  /\ \E m \in Moves : Overlaps(m) # {}
      ]_vars

(* the last life was lost *)
C5_Witness == state = GAME_OVER /\ lives = 0 /\ time_left_frames > 0

(* C6: after every regeneration (a round start, a restart, a life loss     *)
(* that leaves lives > 0) the food is not on the player's cell; it is the  *)
(* fallback cell or its centre is at least radius + cell_size // 2 away    *)
(* from every defender just placed; and every defender just placed is at   *)
(* least min_distance from the player's centre or on the default point.    *)
C6_RegenerationExclusion ==
    [][ (running' /\ (RoundStartStep
                        \/ (state = PLAYING /\ lives' = lives - 1 /\ lives' > 0))) =>
            /\ food_pos' # <<player'[1].x, player'[1].y>>
            /\ \/ food_pos' = FoodFallback
               \/ \A i \in 1..Len(bg_players') :
                     Dist2(bg_players'[i], CentreX(food_pos'[1]),
                           CentreY(food_pos'[2])) >= Sq(CollisionReach)
            /\ \A i \in 1..Len(bg_players') :
                  \/ Dist2(bg_players'[i], CentreX(player'[1].x),
                           CentreY(player'[1].y)) >= Sq(2 * MinDistance)
                  \/ <<bg_players'[i].x, bg_players'[i].y>>
                        = <<2 * DefenderFallback[1], 2 * DefenderFallback[2]>>
      ]_vars

(* C7: an update takes at most one life; and when defenders overlap the   *)
(* player in an update, however many, the collision loop ends in the state *)
(* that one life loss gives: one decrement, at most one regeneration.      *)
C7_OneLifeLossPerTick ==
    Active =>
        /\ \A a \in ActiveOutcomes(Round, 0) : a.lives >= lives - 1
        /\ \A m \in Moves :
              Overlaps(m) # {} =>
                  \A c \in CollideOutcomes(m) :
                      /\ c.lives = m.lives - 1
                      /\ \E food \in spawn_food(NewPlayer(m.player[1].color),
                                                m.bg_players),
                            batch \in DefenderBatches(m.player[1].color,
                                                      NewPlayer(m.player[1].color),
                                                      m.selected_difficulty,
                                                      m.num_defenders) :
                            c = LoseLife(m, food, batch)

(* several defenders overlap the player in the next update, lives to spare *)
C7_Witness ==
    /\ Active
    /\ lives >= 2
    /\ \E m \in Moves : Cardinality(Overlaps(m)) >= 2

(* C8: a step into GAME_OVER (last life, timer, Quit button) leaves        *)
(* final_score equal to the score that step ends with, and a step from     *)
(* GAME_OVER to GAME_OVER leaves final_score as it was.                    *)
C8_FinalScoreSnapshot ==
    [][ running' =>
            /\ (state # GAME_OVER /\ state' = GAME_OVER) => final_score' = score'
            /\ (state = GAME_OVER /\ state' = GAME_OVER) => final_score' = final_score
      ]_vars

(* the round ended on its last life with the points of a pickup *)
C8_Witness == state = GAME_OVER /\ lives = 0 /\ final_score = 10

(* C9: PLAYING implies lives >= 1 before and after every step; the update  *)
(* that takes the last life ends in GAME_OVER with the player, the         *)
(* defenders and the food where the move of that update left them.         *)
C9_LastLifeEndsRound ==
    [][ /\ state = PLAYING => lives >= 1
        /\ (running' /\ state' = PLAYING) => lives' >= 1
        /\ (running' /\ state = PLAYING /\ lives' = 0) =>
               /\ state' = GAME_OVER
               /\ \E m \in Moves :
                     /\ player' = m.player
                     /\ bg_players' = m.bg_players
                     /\ food_pos' = m.food_pos
      ]_vars

(* the last life was lost with the player away from its start cell *)
C9_Witness ==
    /\ state = GAME_OVER /\ lives = 0
    /\ <<player[1].x, player[1].y>> # <<GridW \div 2, GridH \div 2>>

(* C10: PLAYING implies time_left_frames > 0 before and after every step;  *)
(* an update that leaves time_left_frames <= 0 ends in GAME_OVER with      *)
(* final_score = score, whatever lives is.                                 *)
C10_TimerExpiry ==
    [][ /\ state = PLAYING => time_left_frames > 0
        /\ (running' /\ state' = PLAYING) => time_left_frames' > 0
        /\ (running' /\ state = PLAYING /\ time_left_frames' <= 0) =>
               /\ state' = GAME_OVER
               /\ final_score' = score'
      ]_vars

(* the timer ran out, to 0 exactly, with two lives left *)
C10_Witness == state = GAME_OVER /\ time_left_frames = 0 /\ lives = 2

(* C11: toggling paused twice gives the value it had; and every step of    *)
(* PLAYING that begins or ends paused (the step that pauses, the steps     *)
(* while paused, the step that resumes) leaves score, lives, the timers,   *)
(* move_delay, move_counter, the player, the defenders and the food as     *)
(* they were.                                                              *)
C11_PauseTwice ==
    [][ /\ TogglePause(TogglePause(paused)) = paused
        /\ (running' /\ state = PLAYING /\ state' = PLAYING /\ (paused \/ paused')) =>
               UNCHANGED <<score, lives, time_left_frames, countdown_timer,
                           move_delay, move_counter, player, bg_players, food_pos>>
      ]_vars

(* a round paused in the middle of play, after a pickup *)
C11_Witness ==
    /\ state = PLAYING /\ paused
    /\ countdown_timer = 0 /\ score = 10 /\ last_step # NoStep

(* C12: no step from a paused PLAYING state, the one that resumes          *)
(* included, changes countdown_timer, time_left_frames, move_counter,      *)
(* move_delay, score, lives, the player, the defenders or the food.        *)
C12_PausedFrame ==
    [][ (running' /\ state = PLAYING /\ paused) =>
            UNCHANGED <<countdown_timer, time_left_frames, move_counter,
                        move_delay, score, lives, player, bg_players, food_pos>>
      ]_vars

(* paused with a defender within reach of the player and the move due *)
C12_Witness ==
    /\ state = PLAYING /\ paused /\ countdown_timer = 0
    /\ 2 * (move_counter + 1) >= move_delay
    /\ \E i \in 1..Len(bg_players) :
          Dist2(bg_players[i], CentreX(player[1].x), CentreY(player[1].y))
              < Sq(CollisionReach + 2 * bg_players[i].speed)

(* C13: countdown_timer is never negative; it changes only to 3 * FPS at a *)
(* round start or by -1 in a step of unpaused PLAYING; and no step of      *)
(* unpaused PLAYING with countdown_timer > 0 changes the defenders, the    *)
(* player, move_counter, time_left_frames, lives, score, food or           *)
(* move_delay.                                                             *)
C13_CountdownFrame ==
    [][ /\ countdown_timer >= 0 /\ countdown_timer' >= 0
        /\ (running' /\ state = PLAYING /\ ~paused /\ countdown_timer > 0) =>
               UNCHANGED <<bg_players, player, move_counter, time_left_frames,
                           lives, score, food_pos, move_delay>>
        /\ (running' /\ countdown_timer' # countdown_timer) =>
               \/ RoundStartStep /\ countdown_timer' = 3 * FPS
               \/ /\ state = PLAYING /\ ~paused /\ state' = PLAYING
                  /\ countdown_timer' = countdown_timer - 1
      ]_vars

(* the last frame of a countdown, in a round that follows another *)
C13_Witness ==
    /\ state = PLAYING /\ ~paused /\ countdown_timer = 1
    /\ final_score > 0

(* C14: a life loss that leaves lives > 0 keeps PLAYING, puts a player of  *)
(* the same colour on the centre cell heading right, places as many new    *)
(* defenders as there were, re-places the food, sets move_delay to the     *)
(* difficulty's initial value and leaves score and countdown_timer alone.  *)
C14_LifeLossFrame ==
    Active =>
        \A m \in Moves :
            (Overlaps(m) # {} /\ m.lives > 1) =>
                \A c \in CollideOutcomes(m) :
                    /\ c.state = PLAYING
                    /\ c.lives = m.lives - 1
                    /\ c.player = <<[x |-> GridW \div 2, y |-> GridH \div 2,
                                     direction |-> <<1, 0>>,
                                     color |-> player[1].color]>>
                    /\ Len(c.bg_players) = Len(bg_players)
                    /\ \A i \in 1..Len(c.bg_players) :
                          c.bg_players[i] \in NewDefenders(player[1].color,
                                                           c.player[1],
                                                           selected_difficulty)
                    /\ c.food_pos \in spawn_food(c.player[1], m.bg_players)
                    /\ c.move_delay = 2 * (IF selected_difficulty = "Easy" THEN 10
                                           ELSE IF selected_difficulty = "Medium"
                                                THEN 7 ELSE 5)
                    /\ c.score = m.score
                    /\ c.countdown_timer = countdown_timer

(* a life is about to be lost, lives to spare, after a pickup lowered      *)
(* move_delay                                                              *)
C14_Witness ==
    /\ Active /\ lives >= 2
    /\ move_delay < initial_move_delay
    /\ \E m \in Moves : Overlaps(m) # {}

(* C15: during and after a round, initial_move_delay, num_defenders, the   *)
(* number of defenders and the speed of each of them are those of the      *)
(* selected difficulty, whatever the colour and the duration: Easy 1.5     *)
(* px per frame, 10 frames, 2; Medium 2.0, 7, 4; Hard 2.5, 5, 6 (speeds    *)
(* in half-pixels, delays in half-frames).                                 *)
C15_RoundParameters ==
    state \in {PLAYING, GAME_OVER} =>
        LET row == IF selected_difficulty = "Easy" THEN <<3, 20, 2>>
                   ELSE IF selected_difficulty = "Medium" THEN <<4, 14, 4>>
                   ELSE <<5, 10, 6>>
        IN  /\ selected_difficulty \in Difficulties
            /\ initial_move_delay = row[2]
            /\ num_defenders = row[3]
            /\ Len(bg_players) = row[3]
            /\ \A i \in 1..Len(bg_players) : bg_players[i].speed = row[1]

(* a Hard round of the second colour and duration, after an earlier round, *)
(* with a batch of defenders placed at a life loss                         *)
C15_Witness ==
    /\ state = PLAYING /\ selected_difficulty = "Hard"
    /\ selected_color = "Blue" /\ selected_time = 2
    /\ final_score > 0 /\ lives < StartLives

(* C16: every step into PLAYING sets score 0, lives 3, countdown_timer     *)
(* 3 * FPS, time_left_frames selected_time * 60 * FPS, paused false,       *)
(* move_counter 0, move_delay the difficulty's initial value and the       *)
(* player on the centre cell heading right; the step from GAME_OVER into   *)
(* PLAYING leaves difficulty, colour and duration as they were.            *)
C16_RoundStart ==
    [][ (running' /\ RoundStartStep) =>
            /\ state \in {TIME_SELECT, GAME_OVER}
            /\ score' = 0
            /\ lives' = 3
            /\ countdown_timer' = 3 * FPS
            /\ time_left_frames' = selected_time' * 60 * FPS
            /\ ~paused'
            /\ move_counter' = 0
            /\ move_delay' = 2 * (IF selected_difficulty' = "Easy" THEN 10
                                  ELSE IF selected_difficulty' = "Medium" THEN 7
                                  ELSE 5)
            /\ player' = <<[x |-> GridW \div 2, y |-> GridH \div 2,
                            direction |-> <<1, 0>>, color |-> selected_color']>>
            /\ state = GAME_OVER =>
                   UNCHANGED <<selected_difficulty, selected_color, selected_time>>
      ]_vars

(* a round of the second colour and duration just started, after a round   *)
(* that scored                                                             *)
C16_Witness ==
    /\ state = PLAYING /\ countdown_timer = 3 * FPS
    /\ final_score > 0 /\ score = 0 /\ lives = 3
    /\ selected_color = "Blue" /\ selected_time = 2

(* C17: once a round is over, the food placements the next round start can *)
(* make are those it could make if no defender of the finished round       *)
(* existed.                                                                *)
C17_NoCarryOver ==
    (running /\ state = GAME_OVER) =>
        spawn_food(NewPlayer(selected_color), bg_players)
            = spawn_food(NewPlayer(selected_color), <<>>)

(* C18: TIME_SELECT is only shown with a difficulty and a colour selected; *)
(* a step from TIME_SELECT into PLAYING is taken with both selected; a     *)
(* step that leaves TIME_SELECT with one of them missing goes to WELCOME   *)
(* and changes nothing of the round.                                       *)
C18_TimePick ==
    [][ /\ state = TIME_SELECT =>
               selected_difficulty # None /\ selected_color # None
        /\ (running' /\ state = TIME_SELECT /\ state' = PLAYING) =>
               selected_difficulty \in Difficulties /\ selected_color # None
        /\ (running' /\ state = TIME_SELECT /\ state' # state
               /\ (selected_difficulty = None \/ selected_color = None)) =>
               state' = WELCOME /\ UNCHANGED round_vars
      ]_vars

(* the first round of a session has just been started by a time button *)
C18_Witness ==
    /\ state = PLAYING /\ countdown_timer = CountdownSeconds * FPS
    /\ final_score = 0 /\ bg_players # <<>>
    /\ selected_difficulty = "Medium"

ScreenEdges ==
    {<<MENU, WELCOME>>, <<WELCOME, COLOR_SELECT>>, <<WELCOME, SETTINGS>>,
     <<SETTINGS, WELCOME>>, <<COLOR_SELECT, TIME_SELECT>>,
     <<TIME_SELECT, PLAYING>>, <<TIME_SELECT, WELCOME>>,
     <<PLAYING, GAME_OVER>>, <<GAME_OVER, PLAYING>>,
     <<GAME_OVER, COLOR_SELECT>>, <<GAME_OVER, MENU>>}

C20_NoReversal ==
    Active =>
        \A m \in Moves :
            (m.moved /\ ~m.hit_wall /\ last_step # NoStep) =>
                player[1].direction # <<-last_step[1], -last_step[2]>>

(* C21: the update of a frame acts on what the events of that frame left:  *)
(* from a state that is paused or not PLAYING no step other than a round   *)
(* start changes the countdown, the timer, move_counter, the defenders,    *)
(* the player, lives, score, food or move_delay; and a step of PLAYING     *)
(* that takes the player to another cell without a life loss takes it one  *)
(* cell along the heading it had before the step, the heading of the last  *)
(* accepted key.                                                           *)
C21_EventsBeforeUpdate ==
    [][ running' =>
          /\ ((state # PLAYING \/ paused) /\ ~RoundStartStep) =>
                 UNCHANGED <<countdown_timer, time_left_frames, move_counter,
                             bg_players, player, lives, score, food_pos,
                             move_delay>>
          /\ (state = PLAYING /\ lives' = lives
                 /\ <<player'[1].x, player'[1].y>> # <<player[1].x, player[1].y>>) =>
                 /\ player'[1].x = player[1].x + player[1].direction[1]
                 /\ player'[1].y = player[1].y + player[1].direction[2]
                 /\ player'[1].direction = player[1].direction
      ]_vars

(* a key has turned the player in this frame and the move is due in it *)
C21_Witness ==
    /\ Active /\ key_taken
    /\ last_step # NoStep /\ player[1].direction # last_step
    /\ 2 * (move_counter + 1) >= move_delay
    /\ \E m \in Moves : m.moved /\ ~m.hit_wall

(* C22: a focus loss in PLAYING leaves paused true and everything else as  *)
(* it was; in any other state it changes nothing; and outside PLAYING      *)
(* paused changes only when a round starts.                                *)
C22_FocusLost ==
    [][ /\ FocusLost =>
               /\ state = PLAYING => paused'
               /\ state # PLAYING => paused' = paused
               /\ UNCHANGED <<running, state, config_vars, move_delay,
                              move_counter, player, food_pos, bg_players, score,
                              final_score, lives, time_left_frames,
                              countdown_timer>>
        /\ (running' /\ state # PLAYING /\ paused' # paused) => RoundStartStep
      ]_vars

(* a second round, paused during its countdown, where a focus loss can    *)
(* arrive                                                                  *)
C22_Witness ==
    /\ state = PLAYING /\ paused /\ countdown_timer > 0
    /\ final_score > 0
    /\ ENABLED FocusLost

C24_ChangeDirection ==
    player # <<>> =>
          \A d \in {<<0, -1>>, <<0, 1>>, <<-1, 0>>, <<1, 0>>} :
              LET p == player[1]
                  q == change_direction(p, d)
              IN  /\ q.x = p.x /\ q.y = p.y /\ q.color = p.color
                  /\ q.direction = IF d[1] + p.direction[1] = 0
                                        /\ d[2] + p.direction[2] = 0
                                   THEN p.direction ELSE d

(* a key has turned the player upwards next to the top wall *)
C24_Witness ==
    /\ state = PLAYING /\ key_taken
    /\ player[1].direction = <<0, -1>> /\ player[1].y = 0

(* C25: for the player and the food of every state, on the grid of the     *)
(* state, move returns success; hit_wall iff the cell ahead is outside     *)
(* the grid, and then the player stays; otherwise the player is on the     *)
(* cell ahead and ate iff that cell is the food's; never ate with          *)
(* hit_wall.  On a 30 x 20 grid: (15,10) heading right with food (16,10)   *)
(* eats and stands on (16,10); (29,10) heading right hits the wall and     *)
(* stays.                                                                  *)
C25_Move ==
    /\ player # <<>> =>
          LET p == player[1]
              ax == p.x + p.direction[1]
              ay == p.y + p.direction[2]
              outside == ax < 0 \/ ax >= GridW \/ ay < 0 \/ ay >= GridH
              r == PlayerMove(p, food_pos, GridW, GridH)
          IN  /\ r.success
              /\ r.hit_wall <=> outside
              /\ r.ate <=> (~outside /\ food_pos = <<ax, ay>>)
              /\ ~(r.ate /\ r.hit_wall)
              /\ <<r.player.x, r.player.y>> = IF outside THEN <<p.x, p.y>>
                                              ELSE <<ax, ay>>
              /\ r.player.direction = p.direction
    /\ LET r == PlayerMove([x |-> 15, y |-> 10, direction |-> <<1, 0>>,
                            color |-> "Red"], <<16, 10>>, 30, 20)
       IN  r.success /\ r.ate /\ ~r.hit_wall
             /\ r.player.x = 16 /\ r.player.y = 10
    /\ LET r == PlayerMove([x |-> 29, y |-> 10, direction |-> <<1, 0>>,
                            color |-> "Red"], <<16, 10>>, 30, 20)
       IN  r.success /\ ~r.ate /\ r.hit_wall
             /\ r.player.x = 29 /\ r.player.y = 10

(* the move is due with the food on the cell ahead, after a turn *)
C25_Witness ==
    /\ Active /\ 2 * (move_counter + 1) >= move_delay
    /\ player[1].direction # <<1, 0>>
    /\ food_pos = <<player[1].x + player[1].direction[1],
                    player[1].y + player[1].direction[2]>>

(* C26: when a time button is about to place the defenders, every          *)
(* placement is a point at least min_distance from the player's centre or  *)
(* the default point, and whatever the draws, the loop ends, draws at most *)
(* max_attempts samples and takes the default only after exactly           *)
(* max_attempts rejected ones.                                             *)
C26_DefenderSampling ==
    (running /\ state = TIME_SELECT) =>
        LET p == NewPlayer(selected_color) IN
        /\ \A pt \in SpawnPoints(p) : FarEnough(pt, p) \/ pt = DefenderFallback
        /\ \A r \in SpawnRejects(p) :
              LET run == SpawnLoop(r) IN
              /\ run.done
              /\ run.drawn <= MaxAttempts
              /\ run.default => run.drawn = MaxAttempts

(* C27: for the player and the defenders of a round in play, every         *)
(* placement of the food is a cell of the grid: a cell other than the      *)
(* player's and clear of every defender in the list passed, or the cell    *)
(* (grid_w // 2 + 1, grid_h // 2 + 1); and whatever the draws, the loop    *)
(* ends, draws at most max_attempts samples and takes the fixed cell only  *)
(* after exactly max_attempts rejected ones.                               *)
C27_FoodSampling ==
    (running /\ state = PLAYING) =>
        LET p == player[1] IN
        /\ \A c \in spawn_food(p, bg_players) :
              /\ 0 <= c[1] /\ c[1] < GridW /\ 0 <= c[2] /\ c[2] < GridH
              /\ \/ /\ c # <<p.x, p.y>>
                    /\ \A i \in 1..Len(bg_players) :
                          Dist2(bg_players[i], CentreX(c[1]), CentreY(c[2]))
                              >= Sq(2 * (Radius + CellSize \div 2))
                 \/ c = <<GridW \div 2 + 1, GridH \div 2 + 1>>
        /\ \A r \in FoodRejects(p, bg_players) :
              LET run == FoodLoop(r) IN
              /\ run.done
              /\ run.drawn <= FoodMaxAttempts
              /\ run.default => run.drawn = FoodMaxAttempts

(* C28: time_left_frames is never negative.                                *)
C28_TimerNotNegative ==
    time_left_frames >= 0

(* C29: in every state of PLAYING there is a player, there is a food cell, *)
(* and the number of defenders is that of the selected difficulty (2, 4,   *)
(* 6), the one stored at the round start; no step within PLAYING changes   *)
(* that number.                                                            *)
C29_RoundEntities ==
    state = PLAYING =>
        /\ Len(player) = 1
        /\ Len(food_pos) = 2
        /\ Len(bg_players) = (IF selected_difficulty = "Easy" THEN 2
                              ELSE IF selected_difficulty = "Medium" THEN 4
                              ELSE 6)
        /\ Len(bg_players) = num_defenders
        /\ Active => \A s \in ActiveOutcomes(Round, 0) :
                        /\ Len(s.bg_players) = Len(bg_players)
                        /\ Len(s.player) = 1 /\ Len(s.food_pos) = 2

(* a Hard round on its last life, after a pickup and two regenerations *)
C29_Witness ==
    /\ state = PLAYING /\ selected_difficulty = "Hard"
    /\ lives = 1 /\ score > 0
    /\ Len(bg_players) = 6

(* C30: in a frame of play, after the pursuit step and the player's move,  *)
(* a life is lost iff some defender's centre is nearer than radius +       *)
(* cell_size // 2 to the centre of the player's cell; and the same with    *)
(* one defender put at each of a set of offsets from that centre, among    *)
(* them the four at exactly radius + cell_size // 2, which lose no life.   *)
C30_CollisionDistance ==
    Active =>
        \A m \in Moves :
            LET reach == 2 * (Radius + CellSize \div 2)
                px == 2 * (PitchLeft + m.player[1].x * CellSize + CellSize \div 2)
                py == 2 * (PitchTop + m.player[1].y * CellSize + CellSize \div 2)
                near == \E i \in 1..Len(m.bg_players) :
                           Sq(m.bg_players[i].x - px) + Sq(m.bg_players[i].y - py)
                             < Sq(reach)
                offsets == {<<reach, 0>>, <<0, reach>>, <<-reach, 0>>, <<0, -reach>>,
                            <<reach - 1, 0>>, <<0, 1 - reach>>, <<reach + 1, 0>>,
                            <<reach - 1, reach - 1>>, <<reach \div 2, reach \div 2>>,
                            <<0, 0>>}
            IN  /\ \A c \in CollideOutcomes(m) :
                      /\ near <=> c.lives = m.lives - 1
                      /\ ~near <=> c.lives = m.lives
                /\ \A o \in offsets :
                      LET b == [m.bg_players[1] EXCEPT !.x = px + o[1], !.y = py + o[2]]
                          one == [m EXCEPT !.bg_players = <<b>>, !.num_defenders = 1]
                      IN  \A c \in CollideOutcomes(one) :
                              c.lives = (IF Sq(o[1]) + Sq(o[2]) < Sq(reach)
                                         THEN m.lives - 1 ELSE m.lives)

(* after the pursuit step and the move of this frame the nearest defender  *)
(* is outside the reach by less than a half-pixel step, and no life is     *)
(* lost                                                                    *)
C30_Witness ==
    /\ Active
    /\ \E m \in Moves :
          /\ m.moved
          /\ \E i \in 1..Len(m.bg_players) :
                Dist2(m.bg_players[i], CentreX(m.player[1].x),
                      CentreY(m.player[1].y)) <= Sq(CollisionReach + 1)
          /\ Overlaps(m) = {}


(* C31: a move (relocation or wall-blocked) is attempted at most once      *)
(* every move_delay ticks: each unpaused tick after the countdown adds 1   *)
(* to move_counter, the move is attempted exactly when the counter reaches *)
(* move_delay and the counter is then 0 again, so between ticks of a round *)
(* 0 <= move_counter < move_delay, and a life lost in the tick leaves the  *)
(* counter as the move left it.  move_delay is kept in halves.             *)
C31_MoveCadence ==
    /\ state = PLAYING => 0 <= move_counter /\ 2 * move_counter < move_delay
    /\ Active =>
          LET due == 2 * (move_counter + 1) >= move_delay
          IN  \A m \in Moves :
                /\ m.moved <=> due
                /\ m.move_counter = (IF due THEN 0 ELSE move_counter + 1)
                /\ ~due => /\ m.player = player
                           /\ m.score = score
                           /\ m.food_pos = food_pos
                           /\ m.move_delay = move_delay
                /\ \A c \in CollideOutcomes(m) :
                      /\ c.move_counter = m.move_counter
                      /\ c.state = PLAYING => 2 * c.move_counter < c.move_delay

(* the counter is about to reach a delay of a whole number and a half of   *)
(* ticks, which a pickup has left                                          *)
C31_Witness ==
    /\ Active
    /\ move_delay % 2 = 1
    /\ move_counter > 0
    /\ 2 * (move_counter + 1) >= move_delay


InsidePitch(b) ==
    /\ 2 * (PitchLeft + Radius) <= b.x /\ b.x <= 2 * (PitchRight - Radius)
    /\ 2 * (PitchTop + Radius) <= b.y /\ b.y <= 2 * (PitchBottom - Radius)

C33_SettingsCommands ==
    [][running' =>
          /\ settings_vars' # settings_vars =>
                /\ state = SETTINGS /\ state' = SETTINGS
                /\ UNCHANGED <<config_vars, round_vars, final_score>>
                /\ sound_on' # sound_on =>
                      UNCHANGED <<dark_mode, volume_level>>
                /\ dark_mode' # dark_mode =>
                      UNCHANGED <<sound_on, volume_level>>
                /\ volume_level' # volume_level =>
                      /\ UNCHANGED <<sound_on, dark_mode>>
                      /\ volume_level' \in {volume_level - 1, volume_level + 1}
                      /\ volume_level' \in 0..VolumeMax
          /\ state = SETTINGS =>
                UNCHANGED <<config_vars, round_vars, final_score>>
          /\ state # SETTINGS /\ state' = SETTINGS => state = WELCOME
    ]_vars

(* the settings screen after a round that scored and lost a life, with the *)
(* sound off, the light theme and the volume at its maximum                *)
C33_Witness ==
    /\ state = SETTINGS
    /\ ~sound_on /\ ~dark_mode /\ volume_level = VolumeMax
    /\ MixerVolume = 0
    /\ final_score > 0 /\ lives < StartLives /\ player # <<>>


(* every defender of round s is min_distance or more from the centre of    *)
(* the player's cell                                                       *)
KeptOff(s) ==
    \A i \in 1..Len(s.bg_players) :
        Dist2(s.bg_players[i], CentreX(s.player[1].x), CentreY(s.player[1].y))
            >= Sq(2 * MinDistance)

(* C34: no two lives are lost on consecutive ticks: right after a          *)
(* regeneration (start of a round, restart, lost life) every defender, on  *)
(* a sample or on the default position, is min_distance or more from the   *)
(* player's centre, so none overlaps the player there and none is within   *)
(* the collision distance after the pursuit step and the player's move of  *)
(* the next tick, whatever direction key came in between.                  *)
C34_NoLossNextTick ==
    /\ state = PLAYING /\ lives = StartLives /\ move_counter = 0
         /\ last_step = NoStep =>
          /\ KeptOff(Round)
          /\ Overlaps(Round) = {}
          /\ Active => \A m \in Moves : Overlaps(m) = {}
    /\ Active =>
          \A m \in Moves :
             \A c \in CollideOutcomes(m) :
                c.lives < m.lives /\ c.state = PLAYING =>
                   /\ KeptOff(c)
                   /\ Overlaps(c) = {}
                   /\ \A d \in Directions :
                         LET n == [c EXCEPT
                                     !.player = <<change_direction(c.player[1], d)>>,
                                     !.moved = FALSE, !.ate = FALSE,
                                     !.hit_wall = FALSE,
                                     !.collision_occurred = FALSE]
                         IN  \A m2 \in MoveOutcomes(PursuitStep(n)) :
                                 /\ Overlaps(m2) = {}
                                 /\ \A c2 \in CollideOutcomes(m2) :
                                       c2.lives = c.lives

(* a life has just been lost, the player is back on the start cell with    *)
(* the move counter as it was, and the new batch stands off                *)
C34_Witness ==
    /\ Active
    /\ lives = StartLives - 1
    /\ last_step = NoStep
    /\ move_counter > 0
    /\ KeptOff(Round)
    /\ 2 * (move_counter + 1) >= move_delay


(* C35: a direction key that arrives while the round is paused or while    *)
(* countdown_timer > 0 is dropped and not kept for later: no step taken    *)
(* from such a state changes the player, so during the countdown of a      *)
(* round and on the tick that brings it to 0 the player still heads right. *)
C35_KeysDropped ==
    [][running' /\ state = PLAYING /\ state' = PLAYING =>
          /\ paused \/ countdown_timer > 0 => player' = player
          /\ countdown_timer > 0 =>
                /\ player[1].direction = <<1, 0>>
                /\ player'[1].direction = <<1, 0>>
                /\ countdown_timer' \in {countdown_timer, countdown_timer - 1}
    ]_vars

(* the last tick of the countdown of a later round: an up key can arrive   *)
(* and pass the cooldown test                                              *)
C35_Witness ==
    /\ state = PLAYING /\ ~paused
    /\ countdown_timer = 1
    /\ final_score > 0
    /\ ~key_taken
    /\ ENABLED KeyDown("up", TRUE)


(* C36: the configuration is complete whenever it is needed: on the        *)
(* screens TIME_SELECT, PLAYING and GAME_OVER a difficulty and a colour    *)
(* are selected, on PLAYING and GAME_OVER a time is selected too, and the  *)
(* round's numbers are those of the difficulty; so the test that aborts a  *)
(* time button (line 747) and the test that sends Restart to the menu      *)
(* (line 832) are false in every state where they are evaluated.           *)
C36_ConfigurationComplete ==
    /\ state \in {TIME_SELECT, PLAYING, GAME_OVER} =>
          /\ selected_difficulty \in Difficulties
          /\ selected_color # None
    /\ state \in {PLAYING, GAME_OVER} =>
          /\ selected_time \in Minutes \cup ButtonMinutes
          /\ num_defenders = DefendersOf(selected_difficulty)
          /\ initial_move_delay = 2 * DelayOf(selected_difficulty)
    /\ running /\ state = TIME_SELECT =>
          ~(selected_color = None \/ selected_difficulty = None)
    /\ running /\ state = GAME_OVER =>
          ~(selected_color = None \/ selected_time = 0 \/ selected_difficulty = None)

(* a round of the hard difficulty has ended with the last life and can be  *)
(* restarted with the same configuration                                   *)
C36_Witness ==
    /\ state = GAME_OVER
    /\ lives = 0
    /\ selected_difficulty = "Hard"
    /\ selected_color \in Colors
    /\ selected_time \in Minutes
    /\ ENABLED RestartSame

===========================================================================
